---- MODULE Spec2Model ----
(***************************************************************************)
(* Model of packages/python-agent/src/toolset_manager.py: the toolset      *)
(* catalog, the alias table, the deprecation metadata and the accessors of *)
(* ToolsetManager.                                                         *)
(*                                                                         *)
(* Python values are modelled as follows.                                  *)
(*   dict            a function; its keys are its DOMAIN                   *)
(*   self.toolsets   a sequence of toolset dicts in insertion order; the   *)
(*                   key of an entry is entry["id"] (line 47 stores every  *)
(*                   toolset under toolset['id']), so keys are unique      *)
(*   Optional[T]     NoneVal or Some(v)                                    *)
(*   sys.stderr      the sequence of warnings written so far               *)
(***************************************************************************)
EXTENDS Naturals, Sequences, FiniteSets

VARIABLES
    toolsets,              \* self.toolsets
    aliases,               \* self.aliases
    deprecation_metadata,  \* self.deprecation_metadata
    stderr,                \* what has been written to sys.stderr
    stderr_before,         \* history: stderr when the last call was entered
    call,                  \* the last call: its name and its argument
    ret,                   \* what the last call returned, under the call's name
    toolsets_file,         \* the file TOOLSETS_FILE names
    aliases_file,          \* the file ALIASES_FILE names
    manager_created,       \* _toolset_manager is not None
    fault,                 \* the exception the last call let escape, or "none"
    load_count,            \* history: how often _load_configuration has run
    first_listing,         \* history: what list_toolsets returned first, per argument
    state,                 \* tool_context.state, as far as its key "elements" goes
    state_before,          \* history: state when the last call was entered
    interactions,          \* the collection self.collections["interactions"]
    environment_state,     \* the collection self.collections["state"]
    clock,                 \* what datetime.utcnow() last returned
    last_stored            \* history: the value last given to store_state_change, per key

ManagerVars == <<toolsets, aliases, deprecation_metadata, stderr, stderr_before>>

ModuleVars ==
    <<toolsets_file, aliases_file, manager_created, fault, load_count, first_listing>>

CanvasVars == <<state, state_before>>

MemoryVars == <<interactions, environment_state, clock, last_stored>>

vars == <<ManagerVars, call, ret, ModuleVars, CanvasVars, MemoryVars>>

----------------------------------------------------------------------------
(* Bounds and input sets *)

MaxNotices == 2    \* warnings written to stderr before the model stops calling
MaxEntries == 2    \* entries of the "toolsets" list of the catalog file
MaxElements == 2   \* elements on the canvas
MaxClock == 3      \* readings of the clock, from 0
MaxStored == 3     \* documents in a collection

\* Identifiers that occur in the configuration.  The empty string is a string
\* like any other for json.load and for the dict lookups.
TableIds == {"", "repos"}

\* Identifiers a caller may ask for.
Ids == TableIds \cup {"missing"}

\* What a catalog entry holds besides its id.
ToolsetBodies ==
    { [tools |-> <<"list_repos", "get_repo">>],
      [tools |-> <<"list_repos">>, metadata |-> [deprecated |-> TRUE]],
      [metadata |-> [deprecated |-> FALSE]] }

\* Values of the deprecation_metadata table.
MetadataValues ==
    { [reason |-> "renamed", removal_date |-> "2025-01-01"],
      [migration_guide |-> "docs/migration.md"],
      [reason |-> "merged", removal_date |-> "2025-06-30", migration_guide |-> ""] }

----------------------------------------------------------------------------
(* Python helpers *)

NoneVal == [tag |-> "None"]
Some(v) == [tag |-> "Some", val |-> v]

\* d.get(k, default)
Get(d, k, default) == IF k \in DOMAIN d THEN d[k] ELSE default

\* d.get(k)
GetOpt(d, k) == IF k \in DOMAIN d THEN Some(d[k]) ELSE NoneVal

\* truth value of an Optional[str]: None and "" are false
TruthyStr(o) == o # NoneVal /\ o.val # ""

\* truth value of an Optional[dict]: None and {} are false
TruthyDict(o) == o # NoneVal /\ DOMAIN o.val # {}

\* truth value of a str
NonEmpty(s) == s # ""

\* the keys of self.toolsets
ToolsetKeys == { toolsets[i]["id"] : i \in 1..Len(toolsets) }

\* self.toolsets.get(key)
ToolsetsGet(key) ==
    IF key \in ToolsetKeys
    THEN Some(toolsets[CHOOSE i \in 1..Len(toolsets) : toolsets[i]["id"] = key])
    ELSE NoneVal

----------------------------------------------------------------------------
(* ToolsetManager *)

\* Mutant: the migration guide line is written whatever the guide is.
Warning_always_guide(old_id, new_id) ==
    LET metadata == Get(deprecation_metadata, old_id, [unset |-> TRUE])
    IN  << <<"deprecated", old_id, new_id>>,
           <<"Reason", Get(metadata, "reason", "Toolset deprecated")>>,
           <<"Removal planned for", Get(metadata, "removal_date", "unknown")>>,
           <<"See migration guide", Get(metadata, "migration_guide", "")>> >>

\* The text _log_deprecation_warning composes, line by line.
Warning(old_id, new_id) ==
    LET metadata == Get(deprecation_metadata, old_id, [unset |-> TRUE])
        removal_date == Get(metadata, "removal_date", "unknown")
        reason == Get(metadata, "reason", "Toolset deprecated")
        migration_guide == Get(metadata, "migration_guide", "")
        warning == << <<"deprecated", old_id, new_id>>,
                      <<"Reason", reason>>,
                      <<"Removal planned for", removal_date>> >>
    IN  IF NonEmpty(migration_guide)
        THEN Append(warning, <<"See migration guide", migration_guide>>)
        ELSE warning

\* Mutant: a warning already on the stream is not written again.
log_deprecation_warning_once(old_id, new_id, err) ==
    IF \E i \in 1..Len(err) : err[i] = Warning(old_id, new_id)
    THEN err
    ELSE Append(err, Warning(old_id, new_id))

\* _log_deprecation_warning(old_id, new_id): the stream after the write, given
\* the stream err before it.
log_deprecation_warning(old_id, new_id, err) ==
    Append(err, Warning(old_id, new_id))

\* Mutant: an unknown id is handed back instead of None.
resolve_toolset_passthrough(toolset_id, err) ==
    IF toolset_id \in DOMAIN aliases
    THEN [ret |-> Some(aliases[toolset_id]),
          err |-> log_deprecation_warning(toolset_id, aliases[toolset_id], err)]
    ELSE [ret |-> Some(toolset_id), err |-> err]

\* Mutant: the catalog is consulted before the alias table.
resolve_toolset_catalog_first(toolset_id, err) ==
    IF toolset_id \in ToolsetKeys
    THEN [ret |-> Some(toolset_id), err |-> err]
    ELSE IF toolset_id \in DOMAIN aliases
    THEN [ret |-> Some(aliases[toolset_id]),
          err |-> log_deprecation_warning(toolset_id, aliases[toolset_id], err)]
    ELSE [ret |-> NoneVal, err |-> err]

\* Mutant: the alias target is looked up in the catalog before it is returned.
resolve_toolset_checked(toolset_id, err) ==
    IF toolset_id \in DOMAIN aliases
    THEN [ret |-> IF aliases[toolset_id] \in ToolsetKeys
                  THEN Some(aliases[toolset_id]) ELSE NoneVal,
          err |-> log_deprecation_warning(toolset_id, aliases[toolset_id], err)]
    ELSE IF toolset_id \in ToolsetKeys
    THEN [ret |-> Some(toolset_id), err |-> err]
    ELSE [ret |-> NoneVal, err |-> err]

\* Mutant: the catalog test is "toolset_id and toolset_id in self.toolsets".
resolve_toolset_truthy(toolset_id, err) ==
    IF toolset_id \in DOMAIN aliases
    THEN [ret |-> Some(aliases[toolset_id]),
          err |-> log_deprecation_warning(toolset_id, aliases[toolset_id], err)]
    ELSE IF NonEmpty(toolset_id) /\ toolset_id \in ToolsetKeys
    THEN [ret |-> Some(toolset_id), err |-> err]
    ELSE [ret |-> NoneVal, err |-> err]

\* resolve_toolset(toolset_id), called with err on the stream: what it returns
\* and what is on the stream afterwards.
resolve_toolset(toolset_id, err) ==
    IF toolset_id \in DOMAIN aliases
    THEN LET canonical_id == aliases[toolset_id]
         IN  [ret |-> Some(canonical_id),
              err |-> log_deprecation_warning(toolset_id, canonical_id, err)]
    ELSE IF toolset_id \in ToolsetKeys
    THEN [ret |-> Some(toolset_id), err |-> err]
    ELSE [ret |-> NoneVal, err |-> err]

\* get_toolset(toolset_id)
get_toolset(toolset_id, err) ==
    LET r == resolve_toolset(toolset_id, err)
        canonical_id == r.ret
    IN  IF TruthyStr(canonical_id)
        THEN [ret |-> ToolsetsGet(canonical_id.val), err |-> r.err]
        ELSE [ret |-> NoneVal, err |-> r.err]

\* ts.get('metadata', {}).get('deprecated', False)
DeprecatedFlag(ts) ==
    Get(Get(ts, "metadata", [unset |-> TRUE]), "deprecated", FALSE)

\* Mutant: an entry whose id is an alias key counts as deprecated too.
list_toolsets_alias_filter(include_deprecated) ==
    IF ~include_deprecated
    THEN SelectSeq(toolsets,
                   LAMBDA ts : ~DeprecatedFlag(ts) /\ ts["id"] \notin DOMAIN aliases)
    ELSE toolsets

\* list_toolsets(include_deprecated)
list_toolsets(include_deprecated) ==
    IF ~include_deprecated
    THEN SelectSeq(toolsets, LAMBDA ts : ~DeprecatedFlag(ts))
    ELSE toolsets

\* Mutant: the filtered list is stored back into self.toolsets.
catalog_after_list_toolsets_stored(include_deprecated) ==
    list_toolsets(include_deprecated)

\* self.toolsets after list_toolsets(include_deprecated): line 140 copies the
\* values into a new list and line 143 rebinds the local name only.
catalog_after_list_toolsets(include_deprecated) == toolsets

\* get_toolset_tools(toolset_id)
get_toolset_tools(toolset_id, err) ==
    LET r == get_toolset(toolset_id, err)
        toolset == r.ret
    IN  IF TruthyDict(toolset)
        THEN [ret |-> Get(toolset.val, "tools", <<>>), err |-> r.err]
        ELSE [ret |-> <<>>, err |-> r.err]

\* Mutant: the catalog entry's own flag counts as well.
is_deprecated_flag(toolset_id) ==
    \/ toolset_id \in DOMAIN aliases
    \/ \E i \in 1..Len(toolsets) :
          toolsets[i]["id"] = toolset_id /\ DeprecatedFlag(toolsets[i])

\* is_deprecated(toolset_id)
is_deprecated(toolset_id) == toolset_id \in DOMAIN aliases

\* get_deprecation_info(toolset_id)
get_deprecation_info(toolset_id) == GetOpt(deprecation_metadata, toolset_id)

----------------------------------------------------------------------------
(* The state after ToolsetManager() has loaded its configuration *)

\* a toolset dict with the given id and body
Toolset(id, b) == [k \in DOMAIN b \cup {"id"} |-> IF k = "id" THEN id ELSE b[k]]

RECURSIVE CatalogsOver(_)
\* the catalogs whose keys are among the given ids: every order of every
\* subset of the ids, every body for each entry
CatalogsOver(ids) ==
    {<<>>} \cup
    UNION { { <<Toolset(id, b)>> \o rest : rest \in CatalogsOver(ids \ {id}) } :
            id \in ids, b \in ToolsetBodies }

Catalogs == CatalogsOver(TableIds)

AliasTables == UNION { [K -> TableIds] : K \in SUBSET TableIds }

MetadataTables == UNION { [K -> MetadataValues] : K \in SUBSET TableIds }

\* the value v as the return value of op
Returned(op, v) == [f \in {op} |-> v]

\* a file the specification at hand does not look at
Unread == [unread |-> TRUE]

\* no listing has been returned yet
NoListing == [b \in BOOLEAN |-> NoneVal]

\* The module level is at rest: the manager exists and is used directly.
\* a session state without the key "elements"
NoElements == [has_elements |-> FALSE, elements |-> <<>>]

\* the canvas while the specification at hand makes no agent call
CanvasAtRest ==
    /\ state = NoElements
    /\ state_before = NoElements

\* The keys the model passes to store_state_change.
StateKeys == {"", "elements", "theme"}

\* nothing stored yet
NothingStored == [k \in StateKeys |-> NoneVal]

\* the session memory while the specification at hand does not use it
MemoryAtRest ==
    /\ interactions = {}
    /\ environment_state = {}
    /\ clock = 0
    /\ last_stored = NothingStored

ModuleAtRest ==
    /\ toolsets_file = Unread
    /\ aliases_file = Unread
    /\ manager_created = TRUE
    /\ fault = "none"
    /\ load_count = 1
    /\ first_listing = NoListing

Init ==
    /\ toolsets \in Catalogs
    /\ aliases \in AliasTables
    /\ deprecation_metadata \in MetadataTables
    /\ stderr = <<>>
    /\ stderr_before = <<>>
    /\ call = [op |-> "__init__"]
    /\ ret = Returned("__init__", NoneVal)
    /\ ModuleAtRest
    /\ CanvasAtRest
    /\ MemoryAtRest

----------------------------------------------------------------------------
(* The calls *)

Tables == <<toolsets, aliases, deprecation_metadata>>

\* A call op(toolset_id) that may write to stderr.
Writing(op, toolset_id, r) ==
    /\ Len(r.err) <= MaxNotices
    /\ call' = [op |-> op, toolset_id |-> toolset_id]
    /\ ret' = Returned(op, r.ret)
    /\ stderr_before' = stderr
    /\ stderr' = r.err
    /\ UNCHANGED <<Tables, ModuleVars, CanvasVars, MemoryVars>>

\* A call op(toolset_id) that does not.
Reading(op, toolset_id, r) ==
    /\ call' = [op |-> op, toolset_id |-> toolset_id]
    /\ ret' = Returned(op, r)
    /\ stderr_before' = stderr
    /\ UNCHANGED <<stderr, Tables, ModuleVars, CanvasVars, MemoryVars>>

ResolveToolset ==
    \E id \in Ids : Writing("resolve_toolset", id, resolve_toolset(id, stderr))

GetToolset ==
    \E id \in Ids : Writing("get_toolset", id, get_toolset(id, stderr))

ListToolsets ==
    \E include_deprecated \in BOOLEAN :
        /\ call' = [op |-> "list_toolsets", include_deprecated |-> include_deprecated]
        /\ ret' = Returned("list_toolsets", list_toolsets(include_deprecated))
        /\ stderr_before' = stderr
        /\ toolsets' = catalog_after_list_toolsets(include_deprecated)
        /\ UNCHANGED <<stderr, aliases, deprecation_metadata, ModuleVars, CanvasVars,
                       MemoryVars>>

GetToolsetTools ==
    \E id \in Ids : Writing("get_toolset_tools", id, get_toolset_tools(id, stderr))

IsDeprecated ==
    \E id \in Ids : Reading("is_deprecated", id, is_deprecated(id))

GetDeprecationInfo ==
    \E id \in Ids : Reading("get_deprecation_info", id, get_deprecation_info(id))

Next ==
    \/ ResolveToolset
    \/ GetToolset
    \/ ListToolsets
    \/ GetToolsetTools
    \/ IsDeprecated
    \/ GetDeprecationInfo

Spec == Init /\ [][Next]_vars

----------------------------------------------------------------------------
(* Properties of the resolver *)

Called(op) == call.op = op

\* what the last call returned
Result == ret[call.op]

\* the call wrote nothing to stderr
Silent == stderr = stderr_before

\* the call wrote exactly one warning, about old_id
OneNotice(old_id) ==
    /\ Len(stderr) = Len(stderr_before) + 1
    /\ SubSeq(stderr, 1, Len(stderr_before)) = stderr_before
    /\ stderr[Len(stderr)][1] = <<"deprecated", old_id, aliases[old_id]>>

\* C1: for an id that is a key of neither the alias table nor the catalog,
\* resolve_toolset returns None and writes no deprecation notice.
C1_NotFound ==
    (Called("resolve_toolset") /\ call.toolset_id \notin DOMAIN aliases
                               /\ call.toolset_id \notin ToolsetKeys)
        => (Result = NoneVal /\ Silent)

\* an id from the configuration is unknown to both tables, after earlier
\* calls have written warnings
C1_Witness ==
    /\ Called("resolve_toolset")
    /\ call.toolset_id \in TableIds \ (DOMAIN aliases \cup ToolsetKeys)
    /\ Result = NoneVal
    /\ Len(stderr) = 1

\* C2: for an id that is a key of the alias table only, every call of
\* resolve_toolset returns the mapped canonical id and writes exactly one
\* deprecation notice, also when the same notice is on the stream already.
C2_AliasOnly ==
    (Called("resolve_toolset") /\ call.toolset_id \in DOMAIN aliases
                               /\ call.toolset_id \notin ToolsetKeys)
        => (Result = Some(aliases[call.toolset_id]) /\ OneNotice(call.toolset_id))

\* the second of two resolutions of the same alias: two equal notices
C2_Witness ==
    /\ Called("resolve_toolset")
    /\ call.toolset_id \in DOMAIN aliases \ ToolsetKeys
    /\ Len(stderr) = 2
    /\ stderr[1] = stderr[2]

\* C3: an id that is a key of the alias table and of the catalog is treated
\* as deprecated: resolve_toolset returns the alias target and writes a notice.
C3_AliasPrecedence ==
    (Called("resolve_toolset") /\ call.toolset_id \in DOMAIN aliases
                               /\ call.toolset_id \in ToolsetKeys)
        => (Result = Some(aliases[call.toolset_id]) /\ OneNotice(call.toolset_id))

\* the id is in both tables and the alias leads elsewhere
C3_Witness ==
    /\ Called("resolve_toolset")
    /\ call.toolset_id \in DOMAIN aliases \cap ToolsetKeys
    /\ aliases[call.toolset_id] # call.toolset_id
    /\ Result = Some(aliases[call.toolset_id])

\* C4: for every key of the alias table resolve_toolset returns the mapped id,
\* whether or not that id is a key of the catalog, and without resolving the
\* mapped id again.
C4_NoExistenceCheck ==
    (Called("resolve_toolset") /\ call.toolset_id \in DOMAIN aliases)
        => /\ Result # NoneVal
           /\ Result.val = aliases[call.toolset_id]

\* the alias target is missing from the catalog and is itself an alias of
\* something else
C4_Witness ==
    /\ Called("resolve_toolset")
    /\ call.toolset_id \in DOMAIN aliases
    /\ aliases[call.toolset_id] \notin ToolsetKeys
    /\ aliases[call.toolset_id] \in DOMAIN aliases
    /\ aliases[aliases[call.toolset_id]] # aliases[call.toolset_id]
    /\ Result = Some(aliases[call.toolset_id])

\* C5: for an id that is a key of the catalog and not of the alias table,
\* resolve_toolset returns the id unchanged and writes no notice.
C5_CatalogOnly ==
    (Called("resolve_toolset") /\ call.toolset_id \in ToolsetKeys
                               /\ call.toolset_id \notin DOMAIN aliases)
        => (Result = Some(call.toolset_id) /\ Silent)

\* a catalog id is resolved while the alias table is not empty and a warning
\* is on the stream already
C5_Witness ==
    /\ Called("resolve_toolset")
    /\ call.toolset_id \in ToolsetKeys \ DOMAIN aliases
    /\ DOMAIN aliases # {}
    /\ Len(stderr) = 1
    /\ Result = Some(call.toolset_id)

----------------------------------------------------------------------------
(* Properties of the accessors *)

\* what resolve_toolset returns for the argument of the last call
Resolved == resolve_toolset(call.toolset_id, stderr_before).ret

\* the last call's argument resolves to a key of the catalog
ResolvesToEntry == Resolved # NoneVal /\ Resolved.val \in ToolsetKeys

\* C6: get_toolset(id) is the catalog lookup of resolve_toolset(id): the
\* definition stored under the resolved id when that id is a catalog key, and
\* None when resolve returns None or the alias target is missing.
C6_GetIsLookupOfResolve ==
    Called("get_toolset")
        => Result = (IF ResolvesToEntry THEN ToolsetsGet(Resolved.val) ELSE NoneVal)

\* C7: get_toolset_tools(id) is empty when id resolves to no catalog entry and
\* is otherwise the tool-name sequence of the resolved toolset, in order.
C7_ToolsOfResolved ==
    Called("get_toolset_tools")
        => Result = (IF ResolvesToEntry
                  THEN Get(ToolsetsGet(Resolved.val).val, "tools", <<>>)
                  ELSE <<>>)

\* the entry's own flag: metadata.deprecated is present and true
Flagged(ts) ==
    /\ "metadata" \in DOMAIN ts
    /\ "deprecated" \in DOMAIN ts["metadata"]
    /\ ts["metadata"]["deprecated"] = TRUE

\* C8: list_toolsets(False) is the catalog, in catalog order, without the
\* entries whose own deprecated flag is true, whatever the alias table holds;
\* list_toolsets(True) is the whole catalog.
C8_ListFiltersOnFlagOnly ==
    Called("list_toolsets")
        => Result = (IF call.include_deprecated
                  THEN toolsets
                  ELSE SelectSeq(toolsets, LAMBDA ts : ~Flagged(ts)))

\* the filtered listing drops a flagged entry whose id is no alias key and
\* keeps an unflagged entry whose id is one
C8_Witness ==
    /\ Called("list_toolsets") /\ call.include_deprecated = FALSE
    /\ Len(toolsets) = 2
    /\ Flagged(toolsets[1]) /\ toolsets[1]["id"] \notin DOMAIN aliases
    /\ ~Flagged(toolsets[2]) /\ toolsets[2]["id"] \in DOMAIN aliases
    /\ Result = <<toolsets[2]>>

\* C9: is_deprecated(id) is true exactly when id is a key of the alias table;
\* the catalog entry's deprecated flag does not count.
C9_DeprecatedIffAlias ==
    Called("is_deprecated")
        => /\ call.toolset_id \in DOMAIN aliases => Result = TRUE
           /\ call.toolset_id \notin DOMAIN aliases => Result = FALSE

\* a flagged catalog entry that is no alias key is reported as not deprecated
C9_Witness ==
    /\ Called("is_deprecated")
    /\ call.toolset_id \notin DOMAIN aliases
    /\ \E i \in 1..Len(toolsets) :
         toolsets[i]["id"] = call.toolset_id /\ Flagged(toolsets[i])
    /\ Result = FALSE

\* C10: get_deprecation_info(id) returns None for every id that is not
\* deprecated, i.e. that is no key of the alias table.
C10_InfoOnlyForAliases ==
    (Called("get_deprecation_info") /\ call.toolset_id \notin DOMAIN aliases)
        => Result = NoneVal

----------------------------------------------------------------------------
(* Properties of the deprecation notice *)

\* the notice the last call wrote
LastNotice == stderr[Len(stderr)]

\* the lines of a notice that start with the given label
LinesOf(notice, label) ==
    { notice[i] : i \in { j \in 1..Len(notice) : notice[j][1] = label } }

\* C16: the notice written for an alias id names the old and the canonical id
\* and gives the reason and the removal date of the old id's deprecation
\* metadata, or "Toolset deprecated" and "unknown" where the metadata lacks
\* them; it has a migration guide line exactly when the metadata configures a
\* non-empty guide.
C16_NoticeContent ==
    (Called("resolve_toolset") /\ call.toolset_id \in DOMAIN aliases)
        => LET old == call.toolset_id
               has(k) == /\ old \in DOMAIN deprecation_metadata
                         /\ k \in DOMAIN deprecation_metadata[old]
               field(k) == deprecation_metadata[old][k]
           IN  /\ LinesOf(LastNotice, "deprecated") = {<<"deprecated", old, aliases[old]>>}
               /\ LinesOf(LastNotice, "Reason") =
                    {<<"Reason", IF has("reason") THEN field("reason")
                                 ELSE "Toolset deprecated">>}
               /\ LinesOf(LastNotice, "Removal planned for") =
                    {<<"Removal planned for",
                       IF has("removal_date") THEN field("removal_date") ELSE "unknown">>}
               /\ LinesOf(LastNotice, "See migration guide") =
                    IF has("migration_guide") /\ field("migration_guide") # ""
                    THEN {<<"See migration guide", field("migration_guide")>>}
                    ELSE {}

\* a notice for an alias whose metadata configures the empty guide: reason and
\* date come from the metadata and there is no guide line
C16_Witness ==
    /\ Called("resolve_toolset")
    /\ call.toolset_id \in DOMAIN aliases \cap DOMAIN deprecation_metadata
    /\ "migration_guide" \in DOMAIN deprecation_metadata[call.toolset_id]
    /\ deprecation_metadata[call.toolset_id]["migration_guide"] = ""
    /\ Len(LastNotice) = 3
    /\ LastNotice[2] = <<"Reason", "merged">>

----------------------------------------------------------------------------
(* Properties of the tables *)

\* C13: no call of resolve_toolset, get_toolset, list_toolsets,
\* get_toolset_tools, is_deprecated or get_deprecation_info changes the
\* catalog, the alias table or the deprecation metadata of the constructed
\* manager.
C13_TablesFrozen ==
    [][/\ toolsets' = toolsets
       /\ aliases' = aliases
       /\ deprecation_metadata' = deprecation_metadata]_vars

\* after a warning has been written, a filtered listing is shorter than the
\* catalog it was taken from
C13_Witness ==
    /\ Called("list_toolsets") /\ call.include_deprecated = FALSE
    /\ Len(stderr) > 0
    /\ Len(Result) < Len(toolsets)

----------------------------------------------------------------------------
(* The configuration files and _load_configuration *)

\* What a file can be.
Absent == [absent |-> TRUE]          \* Path.exists() is false
Unparsable == [unparsable |-> TRUE]  \* json.load raises JSONDecodeError
Array == [array |-> TRUE]            \* JSON, but a list: config.get raises AttributeError
Object(o) == [object |-> o]          \* a JSON object

\* the empty dict
EmptyDict == <<>>

\* The exceptions the load can raise; all are subclasses of Exception.
ExceptionSubclasses == {"JSONDecodeError", "AttributeError", "KeyError"}

\* Mutant: the handlers are "except json.JSONDecodeError".
Caught_decode_only(exc) == exc = "JSONDecodeError"

\* "except Exception as e" catches exc (lines 49 and 60)
Caught(exc) == exc \in ExceptionSubclasses

\* json.load(f) followed by config.get(key, default)
ConfigGet(file, key, default) ==
    IF "unparsable" \in DOMAIN file THEN [exc |-> "JSONDecodeError"]
    ELSE IF "array" \in DOMAIN file THEN [exc |-> "AttributeError"]
    ELSE [exc |-> "none", val |-> Get(file.object, key, default)]

\* self.toolsets[toolset['id']] = toolset: a known key keeps its place
DictSet(d, toolset) ==
    IF \E i \in 1..Len(d) : d[i]["id"] = toolset["id"]
    THEN [i \in 1..Len(d) |-> IF d[i]["id"] = toolset["id"] THEN toolset ELSE d[i]]
    ELSE Append(d, toolset)

RECURSIVE load_loop_skipping(_, _)
\* Mutant: an entry without id is skipped and the loop goes on.
load_loop_skipping(entries, acc) ==
    IF entries = <<>> THEN [toolsets |-> acc, exc |-> "none"]
    ELSE IF "id" \notin DOMAIN Head(entries)
    THEN load_loop_skipping(Tail(entries), acc)
    ELSE load_loop_skipping(Tail(entries), DictSet(acc, Head(entries)))

RECURSIVE load_loop_rec(_, _)
load_loop_rec(entries, acc) ==
    IF entries = <<>> THEN [toolsets |-> acc, exc |-> "none"]
    ELSE IF "id" \notin DOMAIN Head(entries)
    THEN [toolsets |-> acc, exc |-> "KeyError"]
    ELSE load_loop_rec(Tail(entries), DictSet(acc, Head(entries)))

\* the loop of lines 46-47 over the entries, self.toolsets being acc at its
\* start: toolset['id'] raises KeyError for an entry without id
load_loop(entries, acc) == load_loop_rec(entries, acc)

\* lines 42-50: self.toolsets after the block, and the exception that leaves it
load_toolsets(file) ==
    IF "absent" \in DOMAIN file THEN [toolsets |-> <<>>, exc |-> "none"]
    ELSE LET config == ConfigGet(file, "toolsets", <<>>)
             r == IF config.exc # "none"
                  THEN [toolsets |-> <<>>, exc |-> config.exc]
                  ELSE load_loop(config.val, <<>>)
         IN  IF Caught(r.exc) THEN [toolsets |-> r.toolsets, exc |-> "none"] ELSE r

\* lines 53-61: the two tables after the block, and the exception that leaves it
load_aliases(file) ==
    IF "absent" \in DOMAIN file
    THEN [aliases |-> EmptyDict, deprecation_metadata |-> EmptyDict, exc |-> "none"]
    ELSE LET a == ConfigGet(file, "aliases", EmptyDict)
             m == ConfigGet(file, "deprecation_metadata", EmptyDict)
         IN  IF a.exc # "none"
             THEN [aliases |-> EmptyDict, deprecation_metadata |-> EmptyDict,
                   exc |-> IF Caught(a.exc) THEN "none" ELSE a.exc]
             ELSE [aliases |-> a.val, deprecation_metadata |-> m.val, exc |-> "none"]

\* ToolsetManager(): the tables of the new manager, and the exception the
\* constructor raises
load_configuration(tfile, afile) ==
    LET t == load_toolsets(tfile)
        a == load_aliases(afile)
    IN  IF t.exc # "none"
        THEN [toolsets |-> t.toolsets, aliases |-> EmptyDict,
              deprecation_metadata |-> EmptyDict, exc |-> t.exc]
        ELSE [toolsets |-> t.toolsets, aliases |-> a.aliases,
              deprecation_metadata |-> a.deprecation_metadata, exc |-> a.exc]

----------------------------------------------------------------------------
(* The module level: the singleton and the convenience functions *)

\* Mutant: a new manager is built and stored on every access.
get_toolset_manager_rebuild(created) == [construct |-> TRUE, created |-> TRUE]

\* Mutant: the new manager is returned but not stored in _toolset_manager.
get_toolset_manager_unstored(created) == [construct |-> ~created, created |-> created]

\* get_toolset_manager(), created saying whether _toolset_manager is set:
\* whether ToolsetManager() is called, and whether _toolset_manager is set
\* afterwards
get_toolset_manager(created) == [construct |-> ~created, created |-> TRUE]

\* The names the module toolset_manager defines at its top level.
ModuleNames ==
    {"json", "sys", "Path", "Dict", "List", "Optional", "Any", "datetime", "logging",
     "logger", "AGENT_DIR", "TOOLSETS_FILE", "ALIASES_FILE", "ToolsetManager",
     "_toolset_manager", "get_toolset_manager", "resolve_toolset", "get_toolset",
     "list_toolsets", "get_toolset_tools", "initialize_toolsets"}

\* The attributes of a ToolsetManager.
ManagerAttributes ==
    {"toolsets", "aliases", "deprecation_metadata", "_load_configuration",
     "resolve_toolset", "_log_deprecation_warning", "get_toolset", "list_toolsets",
     "get_toolset_tools", "is_deprecated", "get_deprecation_info"}

\* the response of the handler of readiness_check
NotReady(error_type) ==
    [status_code |-> 503, status |-> "not_ready", error_type |-> error_type]

\* readiness_check() of main.py: the import and the call are inside the try
\* block, and "except Exception" turns what they raise into a 503
readiness_check ==
    IF "toolset_manager" \notin ModuleNames THEN NotReady("ImportError")
    ELSE IF "list_available_toolsets" \notin ManagerAttributes
    THEN NotReady("AttributeError")
    ELSE IF Len(toolsets) = 0
    THEN [status_code |-> 503, status |-> "not_ready", toolset_count |-> 0]
    ELSE [status_code |-> 200, status |-> "ready", toolset_count |-> Len(toolsets)]

\* The catalog files and the alias files of the model.
DocBodies == { b \in ToolsetBodies : "tools" \in DOMAIN b }

MalformedEntry == [tools |-> <<"list_repos">>]    \* an entry without "id"

DocEntries ==
    { Toolset("repos", b) : b \in DocBodies }
        \cup {Toolset("", [tools |-> <<"list_repos", "get_repo">>]), MalformedEntry}

RECURSIVE EntryLists(_)
EntryLists(n) ==
    IF n = 0 THEN {<<>>}
    ELSE {<<>>} \cup { <<e>> \o rest : e \in DocEntries, rest \in EntryLists(n - 1) }

CatalogFiles ==
    {Absent, Unparsable, Array, Object([version |-> "1.0"])}
        \cup { Object([toolsets |-> l]) : l \in EntryLists(MaxEntries) }

\* The alias tables of the alias files: those without an alias of itself.
FileAliasTables == { a \in AliasTables : \A k \in DOMAIN a : a[k] # k }

AliasFiles ==
    {Absent, Unparsable, Array, Object([version |-> "1.0"])}
        \cup { Object([aliases |-> a,
                       deprecation_metadata |->
                           [k \in DOMAIN a |-> [reason |-> "renamed",
                                                removal_date |-> "2025-01-01"]]]) :
                 a \in FileAliasTables }

\* What the files are rewritten to while the process runs.
NewCatalogFile == Object([toolsets |-> <<Toolset("issues", [tools |-> <<"list_issues">>])>>])

InitModule ==
    /\ toolsets = <<>>
    /\ aliases = EmptyDict
    /\ deprecation_metadata = EmptyDict
    /\ stderr = <<>>
    /\ stderr_before = <<>>
    /\ call = [op |-> "import"]
    /\ ret = Returned("import", NoneVal)
    /\ toolsets_file \in CatalogFiles
    /\ aliases_file \in AliasFiles
    /\ manager_created = FALSE
    /\ fault = "none"
    /\ load_count = 0
    /\ first_listing = NoListing
    /\ CanvasAtRest
    /\ MemoryAtRest

Files == <<toolsets_file, aliases_file>>

\* get_toolset_manager() as the first step of a call
Access ==
    LET g == get_toolset_manager(manager_created)
        new == load_configuration(toolsets_file, aliases_file)
    IN  /\ load_count' = IF g.construct THEN load_count + 1 ELSE load_count
        /\ IF g.construct /\ new.exc = "none"
           THEN /\ toolsets' = new.toolsets
                /\ aliases' = new.aliases
                /\ deprecation_metadata' = new.deprecation_metadata
                /\ manager_created' = g.created
                /\ fault' = "none"
           ELSE IF g.construct
           THEN /\ UNCHANGED <<Tables, manager_created>>
                /\ fault' = new.exc
           ELSE /\ UNCHANGED Tables
                /\ manager_created' = g.created
                /\ fault' = "none"
        /\ UNCHANGED <<Files, CanvasVars, MemoryVars>>

\* the call ends with the exception of the constructor
Raised(op) ==
    /\ ret' = Returned(op, [raised |-> fault'])
    /\ stderr' = stderr

\* get_toolset_manager() called for itself
GetToolsetManager ==
    /\ Access
    /\ call' = [op |-> "get_toolset_manager"]
    /\ ret' = Returned("get_toolset_manager", [raised |-> fault'])
    /\ stderr_before' = stderr
    /\ UNCHANGED <<stderr, first_listing>>

\* a convenience function op(toolset_id) of lines 203-220; r is what the
\* method it forwards to does on the tables of the manager
Forward(op, toolset_id, r) ==
    /\ Access
    /\ call' = [op |-> op, toolset_id |-> toolset_id]
    /\ stderr_before' = stderr
    /\ IF fault' = "none"
       THEN /\ Len(r.err) <= MaxNotices
            /\ ret' = Returned(op, r.ret)
            /\ stderr' = r.err
       ELSE Raised(op)
    /\ UNCHANGED first_listing

ResolveToolsetFn ==
    \E id \in Ids, err \in {stderr} :
        Forward("resolve_toolset", id, resolve_toolset(id, err)')

GetToolsetFn ==
    \E id \in Ids, err \in {stderr} :
        Forward("get_toolset", id, get_toolset(id, err)')

GetToolsetToolsFn ==
    \E id \in Ids, err \in {stderr} :
        Forward("get_toolset_tools", id, get_toolset_tools(id, err)')

\* the listing of the first call with an argument, and whether the call has
\* been made again since
FirstListing(listing) == [tag |-> "Some", val |-> listing, repeated |-> FALSE]

ListToolsetsFn ==
    \E include_deprecated \in BOOLEAN :
        /\ Access
        /\ call' = [op |-> "list_toolsets", include_deprecated |-> include_deprecated]
        /\ stderr_before' = stderr
        /\ IF fault' = "none"
           THEN LET listing == list_toolsets(include_deprecated)'
                IN  /\ ret' = Returned("list_toolsets", listing)
                    /\ first_listing' =
                         [first_listing EXCEPT ![include_deprecated] =
                             IF @ = NoneVal THEN FirstListing(listing)
                             ELSE [@ EXCEPT !.repeated = TRUE]]
                    /\ stderr' = stderr
           ELSE Raised("list_toolsets") /\ UNCHANGED first_listing

\* initialize_toolsets(): only logs
InitializeToolsets ==
    /\ Access
    /\ call' = [op |-> "initialize_toolsets"]
    /\ ret' = Returned("initialize_toolsets", [raised |-> fault'])
    /\ stderr_before' = stderr
    /\ UNCHANGED <<stderr, first_listing>>

\* GET /ready
ReadinessCheck ==
    /\ call' = [op |-> "readiness_check"]
    /\ ret' = Returned("readiness_check", readiness_check)
    /\ stderr_before' = stderr
    /\ UNCHANGED <<stderr, Tables, ModuleVars, CanvasVars, MemoryVars>>

\* The configuration is rewritten on disk while the process runs. A rewrite
\* before the first load is a different initial file.
RewriteFiles ==
    /\ manager_created
    /\ toolsets_file # NewCatalogFile
    /\ toolsets_file' = NewCatalogFile
    /\ aliases_file' = Absent
    /\ call' = [op |-> "rewrite_files"]
    /\ ret' = Returned("rewrite_files", NoneVal)
    /\ UNCHANGED <<ManagerVars, manager_created, fault, load_count, first_listing,
                   CanvasVars, MemoryVars>>

NextModule ==
    \/ GetToolsetManager
    \/ ResolveToolsetFn
    \/ GetToolsetFn
    \/ GetToolsetToolsFn
    \/ ListToolsetsFn
    \/ InitializeToolsets
    \/ ReadinessCheck
    \/ RewriteFiles

SpecModule == InitModule /\ [][NextModule]_vars

----------------------------------------------------------------------------
(* Properties of the load *)

\* the source is absent or is not a JSON object
FailedSource(file) == DOMAIN file \cap {"absent", "unparsable", "array"} # {}

\* the source is a JSON object that has the key
HasKey(file, key) == "object" \in DOMAIN file /\ key \in DOMAIN file.object

\* every entry of the catalog file has an id
WellFormedCatalog(file) ==
    /\ HasKey(file, "toolsets")
    /\ \A i \in 1..Len(file.object.toolsets) : "id" \in DOMAIN file.object.toolsets[i]

\* the manager exists and the files are those it was loaded from
Fresh == load_count = 1 /\ manager_created /\ toolsets_file # NewCatalogFile

\* C11: constructing the manager never raises, whatever the two files hold.
\* A file that is absent or is not a JSON object leaves its tables empty, a
\* failure in one file (a catalog entry without id included) does not keep the
\* other from loading, and a first access always leaves a manager behind.
C11_ConstructionNeverRaises ==
    /\ fault = "none"
    /\ load_count >= 1 => manager_created
    /\ Fresh =>
        /\ FailedSource(toolsets_file) => Len(toolsets) = 0
        /\ FailedSource(aliases_file) =>
               DOMAIN aliases = {} /\ DOMAIN deprecation_metadata = {}
        /\ HasKey(aliases_file, "aliases") =>
               /\ aliases = aliases_file.object.aliases
               /\ deprecation_metadata = aliases_file.object.deprecation_metadata
        /\ WellFormedCatalog(toolsets_file) =>
               \A i \in 1..Len(toolsets_file.object.toolsets) :
                   toolsets_file.object.toolsets[i]["id"] \in ToolsetKeys

\* an unparsable catalog file next to a good alias file: no toolsets, the
\* aliases loaded
C11_Witness ==
    /\ Fresh
    /\ "unparsable" \in DOMAIN toolsets_file
    /\ HasKey(aliases_file, "aliases")
    /\ Len(toolsets) = 0
    /\ DOMAIN aliases = TableIds
    /\ DOMAIN deprecation_metadata = TableIds

\* the entries of the catalog file
FileEntries == toolsets_file.object.toolsets

\* the catalog file has an entry without id
Malformed ==
    /\ HasKey(toolsets_file, "toolsets")
    /\ \E k \in 1..Len(FileEntries) : "id" \notin DOMAIN FileEntries[k]

\* the place of the first entry without id
FirstMalformed ==
    CHOOSE k \in 1..Len(FileEntries) :
        /\ "id" \notin DOMAIN FileEntries[k]
        /\ \A j \in 1..(k - 1) : "id" \in DOMAIN FileEntries[j]

\* C12 as stated: loading a catalog file that has an entry without id lets
\* the lookup failure escape from the construction of the manager.
C12_FaultEscapes ==
    (load_count >= 1 /\ toolsets_file # NewCatalogFile /\ Malformed) =>
        fault = "KeyError" /\ ~manager_created

\* C12, amended: the lookup failure of an entry without id is caught by the
\* handler of the load and does not leave the construction; it ends the load
\* loop, so the entries before the malformed one are loaded, those after it
\* are not, and the alias file is loaded afterwards all the same.
C12_FaultCaughtLoopEnds ==
    (load_count >= 1 /\ toolsets_file # NewCatalogFile /\ Malformed) =>
        /\ fault = "none"
        /\ manager_created
        /\ ToolsetKeys = { FileEntries[j]["id"] : j \in 1..(FirstMalformed - 1) }
        /\ \A j \in 1..(FirstMalformed - 1) :
               \/ ToolsetsGet(FileEntries[j]["id"]) = Some(FileEntries[j])
               \/ \E i \in (j + 1)..(FirstMalformed - 1) :
                      FileEntries[i]["id"] = FileEntries[j]["id"]
        /\ HasKey(aliases_file, "aliases") => aliases = aliases_file.object.aliases

\* a malformed entry followed by a good one: nothing is loaded from the
\* catalog, the aliases are
C12_Witness ==
    /\ Fresh
    /\ Malformed
    /\ FirstMalformed = 1
    /\ Len(FileEntries) = 2
    /\ "id" \in DOMAIN FileEntries[2]
    /\ Len(toolsets) = 0
    /\ HasKey(aliases_file, "aliases")
    /\ DOMAIN aliases # {}

----------------------------------------------------------------------------
(* Properties of the module level *)

\* the last step was a call of get_toolset_manager or of a function built on it
Accessing == call.op \notin {"import", "rewrite_files", "readiness_check"}

\* C14: the manager is a lazily created singleton. Nothing is loaded before
\* the first access; from the first access on the configuration has been
\* loaded exactly once and the manager is set; and a call made after the files
\* were rewritten still works on the tables of that one load.
C14_LoadedOnceOnFirstAccess ==
    /\ load_count <= 1
    /\ load_count = 0 <=> ~manager_created
    /\ Accessing => load_count = 1 /\ manager_created
    /\ call.op = "import" => load_count = 0 /\ Len(toolsets) = 0
    /\ "issues" \notin ToolsetKeys

\* a lookup made after the files were rewritten, answered from the first load
C14_Witness ==
    /\ toolsets_file = NewCatalogFile
    /\ Called("get_toolset")
    /\ call.toolset_id = "repos"
    /\ Result # NoneVal
    /\ load_count = 1

\* C15: a call of list_toolsets returns what the first call with the same
\* argument returned, the same entries in the same order, whatever was called
\* in between.
C15_ListingRepeats ==
    (Called("list_toolsets") /\ fault = "none") =>
        /\ first_listing[call.include_deprecated] # NoneVal
        /\ first_listing[call.include_deprecated].val = Result

\* a repeated listing of two toolsets after a call that wrote a warning
C15_Witness ==
    /\ Called("list_toolsets")
    /\ first_listing[call.include_deprecated] # NoneVal
    /\ first_listing[call.include_deprecated].repeated
    /\ Len(Result) = 2
    /\ Len(stderr) > 0

\* C20 as stated: with at least one toolset loaded in the manager, the
\* readiness probe answers 200 "ready" with the number of toolsets.
C20_ReadyWhenLoaded ==
    (Called("readiness_check") /\ manager_created /\ Len(toolsets) > 0) =>
        /\ Result.status_code = 200
        /\ Result.status = "ready"
        /\ Result.toolset_count = Len(toolsets)

----------------------------------------------------------------------------
(* The canvas tools of main.py *)

ALLOWED_TYPES == {"StatCard", "DataTable", "ChartCard"}

\* Python values by their type.
Str(s) == [str |-> s]
Int(n) == [int |-> n]
Dict(d) == [dict |-> d]
List(l) == [list |-> l]

\* isinstance(v, str), isinstance(v, dict)
IsStr(v) == "str" \in DOMAIN v
IsDict(v) == "dict" \in DOMAIN v

\* truth value of a str or an int
Truthy(v) == IF IsStr(v) THEN v.str # "" ELSE v.int # 0

\* Mutant: the id is only tested for truth.
InvalidId_truth_only(id) == ~Truthy(id)

\* not id or not isinstance(id, str)
InvalidId(id) == ~Truthy(id) \/ ~IsStr(id)

\* state.get("elements", [])
StateGet(st) == IF st.has_elements THEN st.elements ELSE <<>>

\* state["elements"] = elements
StateSet(st, elements) == [has_elements |-> TRUE, elements |-> elements]

\* el.get("id")
ElGetId(el) == IF "id" \in DOMAIN el THEN el["id"] ELSE NoneVal

\* the first place of elements whose element has the id
FirstWith(elements, id) ==
    CHOOSE i \in 1..Len(elements) :
        /\ ElGetId(elements[i]) = id
        /\ \A j \in 1..(i - 1) : ElGetId(elements[j]) # id

Error(message) == [status |-> "error", message |-> message]

\* Mutant: the new element is always appended.
upsert_ui_element_append(st, id, type, props) ==
    IF InvalidId(id) \/ type \notin ALLOWED_TYPES \/ ~IsDict(props)
    THEN [state |-> st, ret |-> Error("Invalid")]
    ELSE LET elements == Append(StateGet(st), [id |-> id, type |-> type, props |-> props])
         IN  [state |-> StateSet(st, elements),
              ret |-> [status |-> "success", message |-> <<id, type, "added">>,
                       element_count |-> Len(elements)]]

\* upsert_ui_element(tool_context, id, type, props): the state afterwards and
\* the result
upsert_ui_element(st, id, type, props) ==
    IF InvalidId(id) THEN [state |-> st, ret |-> Error("Invalid id")]
    ELSE IF type \notin ALLOWED_TYPES THEN [state |-> st, ret |-> Error("Unknown type")]
    ELSE IF ~IsDict(props) THEN [state |-> st, ret |-> Error("Invalid props")]
    ELSE LET before == StateGet(st)
             new_element == [id |-> id, type |-> type, props |-> props]
             found == \E i \in 1..Len(before) : ElGetId(before[i]) = id
             elements == IF found
                         THEN [before EXCEPT ![FirstWith(before, id)] = new_element]
                         ELSE Append(before, new_element)
             action == IF found THEN "updated" ELSE "added"
         IN  [state |-> StateSet(st, elements),
              ret |-> [status |-> "success", message |-> <<id, type, action>>,
                       element_count |-> Len(elements)]]

\* the result of remove_ui_element for the lists before and after
Removal(id, before, after) ==
    IF Len(before) = Len(after)
    THEN [status |-> "warning", message |-> <<id, "not found (no change made)">>,
          element_count |-> Len(after)]
    ELSE [status |-> "success", message |-> <<id, "removed">>,
          element_count |-> Len(after)]

\* Mutant: only the first element with the id is removed.
remove_ui_element_first(st, id) ==
    IF InvalidId(id) THEN [state |-> st, ret |-> Error("Invalid id")]
    ELSE LET before == StateGet(st)
             found == \E i \in 1..Len(before) : ElGetId(before[i]) = id
             k == FirstWith(before, id)
             after == IF found
                      THEN SubSeq(before, 1, k - 1) \o SubSeq(before, k + 1, Len(before))
                      ELSE before
         IN  [state |-> StateSet(st, after), ret |-> Removal(id, before, after)]

\* remove_ui_element(tool_context, id): the state afterwards and the result
remove_ui_element(st, id) ==
    IF InvalidId(id) THEN [state |-> st, ret |-> Error("Invalid id")]
    ELSE LET before == StateGet(st)
             after == SelectSeq(before, LAMBDA el : ElGetId(el) # id)
         IN  [state |-> StateSet(st, after), ret |-> Removal(id, before, after)]

\* clear_canvas(tool_context)
clear_canvas(st) ==
    [state |-> StateSet(st, <<>>),
     ret |-> [status |-> "success", message |-> "Canvas cleared."]]

\* on_before_agent(callback_context): the state afterwards
on_before_agent(st) == IF ~st.has_elements THEN StateSet(st, <<>>) ELSE st

\* The arguments the model passes to the tools.
IdArgs ==
    {Str("rev_stat"), Str("user_table"), Str("orders_chart"), Str(""), Int(0), Int(7)}

TypeArgs == ALLOWED_TYPES \cup {"Gauge"}

PropsArgs == {Dict([title |-> "Revenue"]), Dict([title |-> "Users"]), List(<<"Revenue">>)}

\* The elements a session can start with: the state comes from the client,
\* so ids can repeat and an element can lack its id.
SessionElements ==
    { [id |-> id, type |-> type, props |-> Dict([title |-> "Revenue"])] :
        id \in {Str("rev_stat"), Str("user_table")}, type \in {"StatCard", "DataTable"} }
        \cup {[type |-> "ChartCard", props |-> Dict([title |-> "Users"])]}

RECURSIVE ElementLists(_)
ElementLists(n) ==
    IF n = 0 THEN {<<>>}
    ELSE {<<>>} \cup { <<el>> \o rest : el \in SessionElements, rest \in ElementLists(n - 1) }

InitCanvas ==
    /\ state \in {NoElements} \cup { StateSet(NoElements, l) : l \in ElementLists(MaxElements) }
    /\ state_before = state
    /\ call = [op |-> "session"]
    /\ ret = Returned("session", NoneVal)
    /\ toolsets = <<>>
    /\ aliases = EmptyDict
    /\ deprecation_metadata = EmptyDict
    /\ stderr = <<>>
    /\ stderr_before = <<>>
    /\ ModuleAtRest
    /\ MemoryAtRest

\* a tool call: r is the state afterwards and the result
ToolCall(c, r) ==
    /\ state.has_elements
    /\ Len(r.state.elements) <= MaxElements
    /\ call' = c
    /\ ret' = Returned(c.op, r.ret)
    /\ state_before' = state
    /\ state' = r.state
    /\ UNCHANGED <<ManagerVars, ModuleVars, MemoryVars>>

\* the before_agent_callback of the agent
OnBeforeAgent ==
    /\ call' = [op |-> "on_before_agent"]
    /\ ret' = Returned("on_before_agent", NoneVal)
    /\ state_before' = state
    /\ state' = on_before_agent(state)
    /\ UNCHANGED <<ManagerVars, ModuleVars, MemoryVars>>

UpsertUiElement ==
    \E id \in IdArgs, type \in TypeArgs, props \in PropsArgs :
        ToolCall([op |-> "upsert_ui_element", id |-> id, type |-> type, props |-> props],
                 upsert_ui_element(state, id, type, props))

RemoveUiElement ==
    \E id \in IdArgs :
        ToolCall([op |-> "remove_ui_element", id |-> id], remove_ui_element(state, id))

ClearCanvas ==
    ToolCall([op |-> "clear_canvas"], clear_canvas(state))

NextCanvas ==
    \/ OnBeforeAgent
    \/ UpsertUiElement
    \/ RemoveUiElement
    \/ ClearCanvas

SpecCanvas == InitCanvas /\ [][NextCanvas]_vars

----------------------------------------------------------------------------
(* Properties of the canvas tools *)

\* the canvas before and after the last call
CanvasBefore == state_before.elements
Canvas == state.elements

\* the element at place i carries the id
Carries(elements, i, id) == "id" \in DOMAIN elements[i] /\ elements[i]["id"] = id

\* the id is the empty string or not a string
EmptyOrNotString(id) == "str" \notin DOMAIN id \/ id.str = ""

\* the arguments of the last upsert_ui_element pass its validation
ValidUpsert ==
    /\ ~EmptyOrNotString(call.id)
    /\ call.type \in {"StatCard", "DataTable", "ChartCard"}
    /\ "dict" \in DOMAIN call.props

\* C17: upsert_ui_element with valid arguments replaces the first element that
\* carries the id, in place, and says "updated"; without such an element it
\* appends the new element and says "added". Every other element stays as it
\* was and element_count is the length of the canvas after the call.
C17_UpsertAddsOrUpdates ==
    (Called("upsert_ui_element") /\ ValidUpsert) =>
        LET new == [id |-> call.id, type |-> call.type, props |-> call.props]
            places == { i \in 1..Len(CanvasBefore) : Carries(CanvasBefore, i, call.id) }
        IN  /\ Result.status = "success"
            /\ Result.element_count = Len(Canvas)
            /\ IF places # {}
               THEN /\ Len(Canvas) = Len(CanvasBefore)
                    /\ \E k \in places :
                           /\ \A i \in places : k <= i
                           /\ Canvas[k] = new
                           /\ \A i \in 1..Len(Canvas) : i # k => Canvas[i] = CanvasBefore[i]
                    /\ Result.message[3] = "updated"
               ELSE /\ Canvas = Append(CanvasBefore, new)
                    /\ Result.message[3] = "added"

\* the second of two elements is replaced by one of another type
C17_Witness ==
    /\ Called("upsert_ui_element")
    /\ ValidUpsert
    /\ Len(CanvasBefore) = 2
    /\ ~Carries(CanvasBefore, 1, call.id)
    /\ Carries(CanvasBefore, 2, call.id)
    /\ Canvas[2] # CanvasBefore[2]
    /\ Result.message[3] = "updated"

\* C18: upsert_ui_element with an id that is empty or not a string, a type
\* outside the allowed ones or props that are not a dictionary returns status
\* "error" and leaves the state as it was; so does remove_ui_element with an
\* id that is empty or not a string.
C18_InvalidArgumentsRejected ==
    /\ (Called("upsert_ui_element") /\ ~ValidUpsert) =>
           Result.status = "error" /\ state = state_before
    /\ (Called("remove_ui_element") /\ EmptyOrNotString(call.id)) =>
           Result.status = "error" /\ state = state_before

\* an upsert with a number as id and otherwise good arguments is rejected on
\* a canvas that has elements
C18_Witness ==
    /\ Called("upsert_ui_element")
    /\ call.id = Int(7)
    /\ call.type = "StatCard"
    /\ "dict" \in DOMAIN call.props
    /\ Result.status = "error"
    /\ Len(Canvas) = 2

RECURSIVE Without(_, _)
\* the elements that do not carry the id, in their order
Without(elements, id) ==
    IF elements = <<>> THEN <<>>
    ELSE IF Carries(elements, 1, id) THEN Without(Tail(elements), id)
    ELSE <<Head(elements)>> \o Without(Tail(elements), id)

\* C19: remove_ui_element with a valid id removes every element that carries
\* the id and keeps the others in their order; it returns "success" and the
\* new length if an element carried the id, and "warning" with the canvas as
\* before if none did.
C19_RemoveDropsEveryMatch ==
    (Called("remove_ui_element") /\ ~EmptyOrNotString(call.id)) =>
        /\ Canvas = Without(CanvasBefore, call.id)
        /\ Result.element_count = Len(Canvas)
        /\ IF \E i \in 1..Len(CanvasBefore) : Carries(CanvasBefore, i, call.id)
           THEN Result.status = "success" /\ Len(Canvas) < Len(CanvasBefore)
           ELSE Result.status = "warning" /\ Canvas = CanvasBefore

\* two elements with the same id are removed by one call
C19_Witness ==
    /\ Called("remove_ui_element")
    /\ Len(CanvasBefore) = 2
    /\ Carries(CanvasBefore, 1, call.id)
    /\ Carries(CanvasBefore, 2, call.id)
    /\ Len(Canvas) = 0
    /\ Result.status = "success"

----------------------------------------------------------------------------
(* The canvas of a session that starts without elements *)

\* A session whose state has no key "elements": on_before_agent sets the
\* empty canvas up before the first tool runs.
InitFreshCanvas ==
    /\ state = NoElements
    /\ state_before = NoElements
    /\ call = [op |-> "session"]
    /\ ret = Returned("session", NoneVal)
    /\ toolsets = <<>>
    /\ aliases = EmptyDict
    /\ deprecation_metadata = EmptyDict
    /\ stderr = <<>>
    /\ stderr_before = <<>>
    /\ ModuleAtRest
    /\ MemoryAtRest

SpecFreshCanvas == InitFreshCanvas /\ [][NextCanvas]_vars

\* C21: on a canvas that started empty, whatever upsert_ui_element,
\* remove_ui_element and clear_canvas calls were made, with valid or invalid
\* arguments, every element has an id that no other element has and a type
\* among the allowed ones, and clear_canvas leaves the canvas empty.
C21_CanvasInvariant ==
    /\ \A i \in 1..Len(Canvas) :
           /\ "id" \in DOMAIN Canvas[i]
           /\ Canvas[i]["type"] \in {"StatCard", "DataTable", "ChartCard"}
           /\ \A j \in 1..Len(Canvas) : Canvas[j]["id"] = Canvas[i]["id"] => j = i
    /\ Called("clear_canvas") => state.has_elements /\ Len(Canvas) = 0

\* a full canvas of two elements, the last call an upsert that replaced one
C21_Witness ==
    /\ Called("upsert_ui_element")
    /\ Result.status = "success"
    /\ Result.message[3] = "updated"
    /\ Len(Canvas) = 2
    /\ Canvas[1]["id"] # Canvas[2]["id"]

----------------------------------------------------------------------------
(* SessionMemory of scripts/session_memory.py *)

\* The n-th reading of the clock as a time: readings are half a second apart,
\* so that every other one has no microseconds.
Time(n) == [sec |-> n \div 2, usec |-> (n % 2) * 500000]

\* datetime.isoformat(): the text of a time, as the numbers it is made of;
\* the microseconds are left out when they are zero
isoformat(t) == IF t.usec = 0 THEN <<t.sec>> ELSE <<t.sec, t.usec>>

\* a < b for two such texts, as str compares them: by the first difference,
\* a proper prefix being the smaller
StrLess(a, b) ==
    \E k \in 1..Len(b) :
        /\ k <= Len(a) + 1
        /\ \A j \in 1..(k - 1) : a[j] = b[j]
        /\ k > Len(a) \/ a[k] < b[k]

Tuple(t) == [tuple |-> t]

\* json.dumps(value, default=str) of a state value: a tuple is written as
\* an array
json_dumps(v) ==
    IF "str" \in DOMAIN v THEN [json_string |-> v.str]
    ELSE IF "tuple" \in DOMAIN v THEN [json_array |-> v.tuple]
    ELSE [json_array |-> v.list]

\* json.loads of such a text: an array is read as a list
json_loads(j) ==
    IF "json_string" \in DOMAIN j THEN Str(j.json_string) ELSE List(j.json_array)

\* collection.upsert(ids=[id], ...): the document with the id is replaced
upsert(coll, entry) == { e \in coll : e.id # entry.id } \cup {entry}

\* store_state_change(state_key, state_value): the document it upserts; id_time
\* and stamp_time are the two readings of the clock it makes
StateDocument(state_key, state_value, id_time, stamp_time) ==
    [id |-> <<"state", state_key, id_time>>,
     document |-> [key |-> state_key, value |-> json_dumps(state_value),
                   previous |-> "null"],
     metadata |-> [state_key |-> state_key, timestamp |-> isoformat(Time(stamp_time)),
                   session_id |-> "s1", has_previous |-> FALSE]]

\* store_interaction(interaction_type, content): the document it upserts
InteractionDocument(interaction_type, content, id_time, stamp_time) ==
    [id |-> <<interaction_type, id_time>>,
     document |-> content,
     metadata |-> [type |-> interaction_type, timestamp |-> isoformat(Time(stamp_time)),
                   session_id |-> "s1"]]

\* collection.get(limit=limit): the library promises no order, so every list
\* of as many documents as asked for, or of all if there are fewer
GetResults(coll, limit) ==
    LET n == IF Cardinality(coll) < limit THEN Cardinality(coll) ELSE limit
    IN  { r \in [1..n -> coll] : \A i, j \in 1..n : r[i] = r[j] => i = j }

RECURSIVE SortDescending(_)
\* items.sort(key=timestamp, reverse=True): the sort is stable, also when
\* reversed, so items with equal timestamps keep their order
SortDescending(items) ==
    IF items = <<>> THEN <<>>
    ELSE LET n == Len(items)
             last == items[n]
             front == SortDescending(SubSeq(items, 1, n - 1))
             \* last goes behind every item that is not smaller than it
             k == Cardinality({ i \in 1..Len(front) :
                      ~StrLess(front[i].metadata.timestamp, last.metadata.timestamp) })
         IN  SubSeq(front, 1, k) \o <<last>> \o SubSeq(front, k + 1, Len(front))

\* get_current_state(), results being what collection.get returned: a dict
\* as the Optional value of each key
get_current_state(results) ==
    LET entries == SortDescending(results)
        First(key) == CHOOSE i \in 1..Len(entries) :
                          /\ entries[i].metadata.state_key = key
                          /\ \A j \in 1..(i - 1) : entries[j].metadata.state_key # key
    IN  [key \in StateKeys |->
            IF key # "" /\ \E i \in 1..Len(entries) : entries[i].metadata.state_key = key
            THEN Some(json_loads(entries[First(key)].document.value))
            ELSE NoneVal]

\* get_recent_interactions(limit), results being what collection.get returned
get_recent_interactions(results, limit) ==
    LET items == [i \in 1..Len(results) |->
                     [document |-> results[i].document, metadata |-> results[i].metadata]]
        sorted == SortDescending(items)
    IN  SubSeq(sorted, 1, IF Len(sorted) < limit THEN Len(sorted) ELSE limit)

\* The arguments the model passes to the session memory.
StateValues == {Str("dark"), Str("light"), Tuple(<<"card1", "card2">>)}

InteractionTypes == {"user_query", "agent_response"}

Contents == {"Generate a dashboard", "Done"}

Limits == {1, 2}

\* everything but the session memory, which the session memory leaves alone
InitOutsideMemory ==
    /\ toolsets = <<>>
    /\ aliases = EmptyDict
    /\ deprecation_metadata = EmptyDict
    /\ stderr = <<>>
    /\ stderr_before = <<>>
    /\ ModuleAtRest
    /\ CanvasAtRest

\* SessionMemory(): the collections of a new session are empty
InitMemory ==
    /\ MemoryAtRest
    /\ call = [op |-> "__init__"]
    /\ ret = Returned("__init__", NoneVal)
    /\ InitOutsideMemory

OutsideMemory == <<ManagerVars, ModuleVars, CanvasVars>>

\* the two readings of datetime.utcnow() of a store call: the clock does not
\* go back, and it need not have moved on between two readings
Readings(id_time, stamp_time) ==
    /\ id_time \in clock..(clock + 1)
    /\ stamp_time \in id_time..(id_time + 1)
    /\ stamp_time <= MaxClock
    /\ clock' = stamp_time

StoreStateChange ==
    \E state_key \in StateKeys, state_value \in StateValues,
       id_time \in 0..MaxClock, stamp_time \in 0..MaxClock :
        LET doc == StateDocument(state_key, state_value, id_time, stamp_time)
        IN  /\ Readings(id_time, stamp_time)
            /\ Cardinality(upsert(environment_state, doc)) <= MaxStored
            /\ environment_state' = upsert(environment_state, doc)
            /\ last_stored' = [last_stored EXCEPT ![state_key] = Some(state_value)]
            /\ call' = [op |-> "store_state_change", state_key |-> state_key,
                        state_value |-> state_value]
            /\ ret' = Returned("store_state_change", doc.id)
            /\ UNCHANGED <<interactions, OutsideMemory>>

GetCurrentState ==
    \E results \in GetResults(environment_state, Cardinality(environment_state)) :
        /\ call' = [op |-> "get_current_state"]
        /\ ret' = Returned("get_current_state", get_current_state(results))
        /\ UNCHANGED <<MemoryVars, OutsideMemory>>

NextState ==
    \/ StoreStateChange
    \/ GetCurrentState

SpecState == InitMemory /\ [][NextState]_vars

StoreInteraction ==
    \E interaction_type \in InteractionTypes, content \in Contents,
       id_time \in 0..MaxClock, stamp_time \in 0..MaxClock :
        LET doc == InteractionDocument(interaction_type, content, id_time, stamp_time)
        IN  /\ Readings(id_time, stamp_time)
            /\ Cardinality(upsert(interactions, doc)) <= MaxStored
            /\ interactions' = upsert(interactions, doc)
            /\ call' = [op |-> "store_interaction", interaction_type |-> interaction_type,
                        content |-> content]
            /\ ret' = Returned("store_interaction", doc.id)
            /\ UNCHANGED <<environment_state, last_stored, OutsideMemory>>

GetRecentInteractions ==
    \E limit \in Limits :
        \E results \in GetResults(interactions, limit) :
            /\ call' = [op |-> "get_recent_interactions", limit |-> limit]
            /\ ret' = Returned("get_recent_interactions",
                               get_recent_interactions(results, limit))
            /\ UNCHANGED <<MemoryVars, OutsideMemory>>

NextInteractions ==
    \/ StoreInteraction
    \/ GetRecentInteractions

SpecInteractions == InitMemory /\ [][NextInteractions]_vars

----------------------------------------------------------------------------
(* Properties of the session memory *)

\* C22 as stated: get_current_state returns, for every key that was ever
\* given to store_state_change, the value of the last call for that key, and
\* nothing for the other keys.
C22_CurrentStateIsLastStored ==
    Called("get_current_state") => Result = last_stored

\* the timestamp of an item of a listing or of a stored document
Stamp(item) == item.metadata.timestamp

\* C23 as stated: get_recent_interactions(limit) returns at most limit items
\* in descending order of timestamp, and no stored interaction that is left
\* out has a later timestamp than one that is returned.
C23_RecentAreTheLatest ==
    Called("get_recent_interactions") =>
        /\ Len(Result) <= call.limit
        /\ \A i \in 1..Len(Result) : \A j \in (i + 1)..Len(Result) :
               ~StrLess(Stamp(Result[i]), Stamp(Result[j]))
        /\ \A e \in interactions :
               (\A i \in 1..Len(Result) : Result[i].document # e.document
                                          \/ Result[i].metadata # e.metadata) =>
                   \A i \in 1..Len(Result) : ~StrLess(Stamp(Result[i]), Stamp(e))

====
